---- MODULE Spec2Model ----
(***************************************************************************)
(* MyWeather: the city-search-to-weather-fetch workflow.                   *)
(*                                                                         *)
(*   services/api.js        searchCity, weatherByCity (lines 1..258)       *)
(*   components/Main.jsx    the orchestrator (lines 32..461)               *)
(*   components/SearchCity  the search result presenter (lines 60..349)    *)
(*   CallWeather            the weather presenter (unnamed/part_003)       *)
(*                                                                         *)
(* A handler is one action: the state updates it makes, the render that    *)
(* follows and the effects that render runs (mounting, unmounting, effect  *)
(* cleanup and effect body) all happen in that one step.  Network          *)
(* responses and the 200 ms timer are separate steps.                      *)
(*                                                                         *)
(* Left out: Main's weatherLoading and appLoading (skeletons shown for a   *)
(* fixed time, read by no handler), searchDuration and resultMetadata      *)
(* (display only), and every console.log.                                  *)
(***************************************************************************)
EXTENDS Integers, Sequences, FiniteSets, TLC

(***************************************************************************)
(* JavaScript values.  A text is a sequence of one-character strings, so   *)
(* that trim() is computed; names, countries and icon codes are opaque.    *)
(***************************************************************************)
Undefined == [undef |-> TRUE]
Null == [null |-> TRUE]
Num(n) == [num |-> n]
Str(s) == [str |-> s]
Text(s) == [text |-> s]
List(s) == [list |-> s]
NaN == [nan |-> TRUE]
EmptyObject == [obj |-> TRUE]
InvalidJson == [badjson |-> TRUE]

IsNum(v) == "num" \in DOMAIN v
IsStr(v) == "str" \in DOMAIN v
IsText(v) == "text" \in DOMAIN v
IsList(v) == "list" \in DOMAIN v

\* typeof v
TypeOf(v) ==
  IF IsNum(v) THEN "number"
  ELSE IF IsStr(v) \/ IsText(v) THEN "string"
  ELSE IF v = Undefined THEN "undefined"
  ELSE "object"

\* the truthiness of v, as `!v`, `v &&` and `v ||` see it
Truthy(v) ==
  IF IsNum(v) THEN v.num # 0
  ELSE IF IsStr(v) THEN v.str # ""
  ELSE IF IsText(v) THEN v.text # <<>>
  ELSE v \notin {Undefined, Null, NaN}

\* the property read v.f of an object: undefined when v has no field f
Get(v, f) == IF f \in DOMAIN v THEN v[f] ELSE Undefined

IsSpace(c) == c = " "

RECURSIVE TrimStart(_)
TrimStart(s) ==
  IF s # <<>> /\ IsSpace(Head(s)) THEN TrimStart(Tail(s)) ELSE s

RECURSIVE TrimEnd(_)
TrimEnd(s) ==
  IF s # <<>> /\ IsSpace(s[Len(s)]) THEN TrimEnd(SubSeq(s, 1, Len(s) - 1)) ELSE s

\* String.prototype.trim
Trim(s) == TrimEnd(TrimStart(s))

Min(a, b) == IF a < b THEN a ELSE b
Max(a, b) == IF a > b THEN a ELSE b

(***************************************************************************)
(* services/api.js                                                         *)
(***************************************************************************)
DEFAULT_SEARCH_LIMIT == 5

\* What a try block ends with: a returned value or a thrown error.
Return(v) == [kind |-> "return", value |-> v]
Throw == [kind |-> "throw"]

\* What fetch() ends with: a rejection (transport failure) or a response.
NetReject == [kind |-> "reject"]
NetHttp(status, body) == [kind |-> "http", status |-> status, body |-> body]
ResponseOk(net) == net.status >= 200 /\ net.status <= 299

\* cleanInput with the emptiness test applied to the trimmed text
cleanInput_trimFirst(input) ==
  IF ~IsText(input) \/ Trim(input.text) = <<>> THEN Throw
  ELSE Return(Text(Trim(input.text)))

cleanInput(input) ==
  IF ~Truthy(input) \/ TypeOf(input) # "string" THEN Throw
  ELSE Return(Text(Trim(input.text)))

\* parseInt(resultLimit) || DEFAULT_SEARCH_LIMIT, then clamped to 1..5
ClampLimit(resultLimit) ==
  LET parsed == IF IsNum(resultLimit) THEN resultLimit ELSE NaN
      orDefault == IF Truthy(parsed) THEN parsed.num ELSE DEFAULT_SEARCH_LIMIT
  IN  Min(Max(orDefault, 1), 5)

\* searchCity up to its fetch: the request it issues, or what the try block
\* ended with before any request.
searchCityRequest(cityQuery, resultLimit) ==
  LET cleaned == cleanInput(cityQuery)
  IN  IF cleaned.kind = "throw"
      THEN [fetch |-> FALSE, outcome |-> Throw]
      ELSE [fetch |-> TRUE, q |-> cleaned.value.text, limit |-> ClampLimit(resultLimit)]

\* the filter keeping every entry whose lat and lon are truthy
ValidCity_truthy(city) ==
  /\ Truthy(city)
  /\ Truthy(Get(city, "name"))
  /\ Truthy(Get(city, "lat"))
  /\ Truthy(Get(city, "lon"))

\* the predicate of cityData.filter
ValidCity(city) ==
  /\ Truthy(city)
  /\ Truthy(Get(city, "name"))
  /\ TypeOf(Get(city, "lat")) = "number"
  /\ TypeOf(Get(city, "lon")) = "number"

\* the try block of searchCity from the resolution of fetch on
searchCityTry(net) ==
  IF net.kind = "reject" THEN Throw
  ELSE IF ~ResponseOk(net) THEN Throw
  ELSE IF net.body = InvalidJson THEN Throw
  ELSE IF ~IsList(net.body) THEN Return(<<>>)
  ELSE Return(SelectSeq(net.body.list, ValidCity))

\* a catch block that rethrows
Catch_rethrow(outcome, fallback) == outcome

\* try { ... } catch (error) { return fallback }
Catch(outcome, fallback) ==
  IF outcome.kind = "throw" THEN Return(fallback) ELSE outcome

\* searchCity without its catch block: a failure reaches the caller
searchCityResponse_noCatch(net) == searchCityTry(net)

\* what the promise of searchCity settles with, given what fetch ended with
searchCityResponse(net) == Catch(searchCityTry(net), <<>>)

\* what the promise of searchCity settles with when no request was issued
searchCityNoFetch(req) == Catch(req.outcome, <<>>)

\* weatherByCity up to its fetch
weatherByCityRequest(cityObject) ==
  IF ~Truthy(cityObject) \/ TypeOf(Get(cityObject, "lat")) # "number"
       \/ TypeOf(Get(cityObject, "lon")) # "number"
  THEN [fetch |-> FALSE, outcome |-> Throw]
  ELSE [fetch |-> TRUE, lat |-> cityObject.lat.num, lon |-> cityObject.lon.num]

\* the try block of weatherByCity checking main alone, as the presenter does
weatherByCityTry_mainOnly(net) ==
  IF net.kind = "reject" THEN Throw
  ELSE IF ~ResponseOk(net) THEN Throw
  ELSE IF net.body = InvalidJson THEN Throw
  ELSE IF ~Truthy(net.body) \/ ~Truthy(Get(net.body, "main")) THEN Return(EmptyObject)
  ELSE Return(net.body)

\* the try block of weatherByCity without the check of the body's structure
weatherByCityTry_unvalidated(net) ==
  IF net.kind = "reject" THEN Throw
  ELSE IF ~ResponseOk(net) THEN Throw
  ELSE IF net.body = InvalidJson THEN Throw
  ELSE Return(net.body)

\* the try block of weatherByCity from the resolution of fetch on
weatherByCityTry(net) ==
  IF net.kind = "reject" THEN Throw
  ELSE IF ~ResponseOk(net) THEN Throw
  ELSE IF net.body = InvalidJson THEN Throw
  ELSE IF ~Truthy(net.body) \/ ~Truthy(Get(net.body, "main"))
            \/ ~Truthy(Get(net.body, "weather"))
       THEN Return(EmptyObject)
  ELSE Return(net.body)

weatherByCityResponse(net) == Catch(weatherByCityTry(net), EmptyObject)

(***************************************************************************)
(* Bounds and the inputs the model draws.                                  *)
(***************************************************************************)
\* accepted submits (searchStats.totalSearches is capped here)
MaxSubmits == 2
\* entries of a geocoding body handed to searchCity on its own
MaxBodyLen == 3
\* characters of a description handed to the weather box on its own
MaxDescLen == 3
\* different city names submitted to handleSubmit run on its own
HistoryCities == 6

Paris == <<"P", "a", "r", "i", "s">>
Tokyo == <<"T", "o", "k", "y", "o">>

\* what the user can put into the input field
InputTexts == {<<>>, <<" ">>, Paris, <<" ">> \o Paris \o <<" ">>, Tokyo}

\* the welcome chips: suggestions.slice(0, 5), cut to the texts above
suggestions == <<Tokyo, Paris>>

CityParis == [name |-> Str("Paris"), country |-> Str("FR"), lat |-> Num(4885), lon |-> Num(235)]
CityQuito == [name |-> Str("Quito"), country |-> Str("EC"), lat |-> Num(0), lon |-> Num(-7850)]
CityNoName == [country |-> Str("FR"), lat |-> Num(4885), lon |-> Num(235)]
CityEmptyName == [name |-> Str(""), country |-> Str("FR"), lat |-> Num(4885), lon |-> Num(235)]
CityTextLat == [name |-> Str("Lyon"), country |-> Str("FR"), lat |-> Str("45.76"), lon |-> Num(483)]
CityNoLon == [name |-> Str("Lima"), country |-> Str("PE"), lat |-> Num(-1204)]

\* what the geocoding endpoint can answer a request of the application with
GeoNets ==
  { NetReject,
    NetHttp(500, Null),
    NetHttp(200, EmptyObject),
    NetHttp(200, List(<<>>)),
    NetHttp(200, List(<<CityParis>>)),
    NetHttp(200, List(<<CityNoName, CityQuito, CityTextLat, CityParis>>)) }

Icon01d == Text(<<"0", "1", "d">>)
Icon01n == Text(<<"0", "1", "n">>)
MainMetrics == [temp |-> Num(154), feels_like |-> Num(141), humidity |-> Num(60)]
ClearSky == <<"c", "l", "e", "a", "r", " ", "s", "k", "y">>
Condition(icon) == [description |-> Text(ClearSky), main |-> Str("Clear"), icon |-> icon]
Wind == [speed |-> Num(32)]
\* a condition without an icon code
ConditionNoIcon == [description |-> Text(ClearSky), main |-> Str("Clear")]

\* what the weather endpoint can answer with
WeatherNets ==
  { NetReject,
    NetHttp(404, Null),
    NetHttp(200, EmptyObject),
    NetHttp(200, [main |-> MainMetrics, wind |-> Wind]),
    NetHttp(200, [main |-> MainMetrics, weather |-> List(<<Condition(Icon01d)>>), wind |-> Wind]),
    NetHttp(200, [main |-> MainMetrics, weather |-> List(<<Condition(Icon01n)>>), wind |-> Wind]),
    NetHttp(200, [main |-> MainMetrics, weather |-> List(<<ConditionNoIcon>>), wind |-> Wind]),
    NetHttp(200, [main |-> MainMetrics, weather |-> List(<<>>), wind |-> Wind]),
    NetHttp(200, [main |-> MainMetrics, weather |-> List(<<Condition(Icon01d)>>)]) }

(***************************************************************************)
(* State.                                                                  *)
(***************************************************************************)
VARIABLES
  city,            \* Main: the raw input text
  searchQuery,     \* Main: the committed query
  selectedCity,    \* Main: the selection, or Null
  isSearching,     \* Main
  searchHistory,   \* Main
  searchStats,     \* Main: totalSearches, successfulSearches
  submitIgnored,   \* history: the last step was a submit that returned at line 97
  instance,        \* SearchCity: which mounting of the component is the current one
  data,            \* SearchCity: the candidate list
  scLoading,       \* SearchCity: loading
  scError,         \* SearchCity: error
  weatherData,     \* CallWeather
  cwLoading,       \* CallWeather: loading
  cwError,         \* CallWeather: error
  theme,           \* CallWeather
  fetchTimeout,    \* CallWeather: the selection the pending 200 ms timer runs for, or Null
  geoInFlight,     \* calls of searchCity that have not settled
  weatherInFlight, \* calls of weatherByCity that have not settled
  geoLog,          \* history: every call of searchCity by the application
  weatherLog,      \* history: every call of weatherByCity by the application
  weatherFor,      \* history: the selectionTime of the call weatherData came from, or 0
  lastSettled,     \* history: the call that settled in the last step, what fetch ended
                   \*   with and what the call gave; Null after any other step
  apiPc,           \* searchCity / weatherByCity called on their own: position
  apiCall,         \*   the call
  apiRequest,      \*   the request it issued
  apiNet,          \*   what fetch ended with
  apiOutcome       \*   what it settled with

uiVars ==
  << city, searchQuery, selectedCity, isSearching, searchHistory, searchStats, submitIgnored,
     instance,
     data, scLoading, scError, weatherData, cwLoading, cwError, theme, fetchTimeout,
     geoInFlight, weatherInFlight, geoLog, weatherLog, weatherFor, lastSettled >>
apiVars == << apiPc, apiCall, apiRequest, apiNet, apiOutcome >>
vars == << uiVars, apiVars >>

mainVars == << city, searchQuery, selectedCity, isSearching, searchHistory, searchStats >>
scVars == << instance, data, scLoading, scError >>
cwVars == << weatherData, cwLoading, cwError, theme, fetchTimeout, weatherFor >>

NoCitiesFound(cityName) == [message |-> "No cities found matching", cityName |-> cityName]
UnableToSearch ==
  [message |-> "Unable to search cities. Please check your connection and try again."]
UnableToLoadWeather == [message |-> "Unable to load weather data. Please try again."]

\* {searchQuery !== "" && <SearchCity .../>}
Mounted == searchQuery # <<>>

(***************************************************************************)
(* CallWeather: helpers and render.                                        *)
(***************************************************************************)
Includes(s, c) == \E i \in DOMAIN s : s[i] = c

\* a theme detection that looks for the 'd' of a day icon
detectTheme_byDay(iconCode) ==
  IF IsText(iconCode) /\ Includes(iconCode.text, "d") THEN "day" ELSE "night"

\* iconCode?.includes('n') ? 'night' : 'day'
detectTheme(iconCode) ==
  IF IsText(iconCode) /\ Includes(iconCode.text, "n") THEN "night" ELSE "day"

\* Math.floor in place of Math.round
formatTemperature_floor(temperature) == Num(temperature.num \div 10)

\* Math.round(temperature): main.temp and main.feels_like are held in tenths
\* of a degree, the result is in whole degrees
formatTemperature(temperature) == Num((temperature.num + 5) \div 10)

\* String.prototype.toUpperCase on one character
UpperCase(c) ==
  LET lower == << "a", "b", "c", "d", "e", "f", "g", "h", "i", "j", "k", "l", "m",
                  "n", "o", "p", "q", "r", "s", "t", "u", "v", "w", "x", "y", "z" >>
      upper == << "A", "B", "C", "D", "E", "F", "G", "H", "I", "J", "K", "L", "M",
                  "N", "O", "P", "Q", "R", "S", "T", "U", "V", "W", "X", "Y", "Z" >>
  IN  IF \E i \in DOMAIN lower : lower[i] = c
      THEN upper[CHOOSE i \in DOMAIN lower : lower[i] = c]
      ELSE c

\* s.split(' ')
RECURSIVE Split(_)
Split(s) ==
  IF \A i \in DOMAIN s : s[i] # " " THEN <<s>>
  ELSE LET i == CHOOSE k \in DOMAIN s : s[k] = " " /\ \A j \in 1..(k - 1) : s[j] # " "
       IN  <<SubSeq(s, 1, i - 1)>> \o Split(SubSeq(s, i + 1, Len(s)))

\* words.join(' ')
RECURSIVE Join(_)
Join(words) ==
  IF Len(words) = 1 THEN words[1] ELSE words[1] \o <<" ">> \o Join(Tail(words))

\* word.charAt(0).toUpperCase() + word.slice(1)
Capitalise(word) == IF word = <<>> THEN <<>> ELSE <<UpperCase(word[1])>> \o Tail(word)

\* description.split(' ').map(...).join(' ')
formatWeatherDescription(description) ==
  LET words == Split(description.text)
  IN  Text(Join([i \in DOMAIN words |-> Capitalise(words[i])]))

\* what the weather box shows of a response: {formatTemperature(main.temp)}°,
\* the formatted description, {main.humidity}%
WeatherBox(w) ==
  [ temperature |-> <<formatTemperature(w.main.temp), "°">>,
    description |-> formatWeatherDescription(w.weather.list[1].description),
    humidity |-> <<w.main.humidity, "%">> ]

\* weather?.[0]
First(weather) ==
  IF IsList(weather) /\ Len(weather.list) > 0 THEN weather.list[1] ELSE Undefined

\* the weather-box reads weather[0].icon, weather[0].description.split and wind.speed
WeatherBoxThrows(w) ==
  \/ First(Get(w, "weather")) = Undefined
  \/ TypeOf(Get(First(Get(w, "weather")), "description")) # "string"
  \/ Get(w, "wind") = Undefined

\* what CallWeather renders
CallWeatherView ==
  IF cwLoading THEN "weather-loading"
  ELSE IF Truthy(cwError) THEN "weather-error"
  ELSE IF ~Truthy(weatherData) \/ ~Truthy(Get(weatherData, "main")) THEN "weather-empty"
  ELSE IF WeatherBoxThrows(weatherData) THEN "throws"
  ELSE "weather-box"

\* A render that throws takes the whole tree down: no handler runs any more.
Crashed == CallWeatherView = "throws"

\* what SearchCity renders
SearchCityView ==
  IF ~Mounted THEN "unmounted"
  ELSE IF scLoading THEN "search-loading"
  ELSE IF Truthy(scError) THEN "search-error"
  ELSE IF Len(data) = 0 THEN "search-empty"
  ELSE "search-results"

\* the candidates the user can see and pick
Displayed == IF SearchCityView = "search-results" THEN data ELSE <<>>

(***************************************************************************)
(* Effects.  Each is the part of a handler's step that React runs after    *)
(* the render the handler caused.                                          *)
(***************************************************************************)

\* the effect of CallWeather without the clearTimeout of its cleanup
CallWeatherEffect_noCleanup(newSelected) ==
  IF newSelected = selectedCity
  THEN UNCHANGED << weatherData, cwError, fetchTimeout, weatherFor >>
  ELSE IF \/ ~Truthy(newSelected)
          \/ ~Truthy(Get(newSelected, "lat"))
          \/ ~Truthy(Get(newSelected, "lon"))
       THEN /\ weatherData' = EmptyObject
            /\ cwError' = Null
            /\ weatherFor' = 0
            /\ UNCHANGED fetchTimeout
       ELSE /\ fetchTimeout' = newSelected
            /\ UNCHANGED << weatherData, cwError, weatherFor >>

\* The effect of CallWeather, when the handler leaves newSelected as the
\* selection: the cleanup of the previous run clears its timer, then the body
\* runs.  Nothing runs when the selection is the same object as before.
CallWeatherEffect(newSelected) ==
  IF newSelected = selectedCity
  THEN UNCHANGED << weatherData, cwError, fetchTimeout, weatherFor >>
  ELSE IF \/ ~Truthy(newSelected)
          \/ ~Truthy(Get(newSelected, "lat"))
          \/ ~Truthy(Get(newSelected, "lon"))
       THEN /\ weatherData' = EmptyObject
            /\ cwError' = Null
            /\ fetchTimeout' = Null
            /\ weatherFor' = 0
       ELSE /\ fetchTimeout' = newSelected
            /\ UNCHANGED << weatherData, cwError, weatherFor >>

\* The effect of SearchCity, when the handler leaves newQuery as the committed
\* query and searching as isSearching: the component is unmounted (its state is
\* dropped), or mounted afresh, or kept with a new cityName; in the last two
\* cases the effect body runs, and fetchCityData starts unless cityName is blank.
SearchCityEffect(newQuery, searching) ==
  IF newQuery = searchQuery
  THEN /\ isSearching' = searching
       /\ UNCHANGED << instance, data, scLoading, scError, geoInFlight, geoLog >>
  ELSE IF newQuery = <<>>
       THEN /\ isSearching' = searching
            /\ data' = <<>>
            /\ scLoading' = FALSE
            /\ scError' = Null
            /\ UNCHANGED << instance, geoInFlight, geoLog >>
       ELSE IF Trim(newQuery) = <<>>
            THEN /\ instance' = IF Mounted THEN instance ELSE instance + 1
                 /\ data' = <<>>
                 /\ scError' = Null
                 /\ scLoading' = FALSE
                 /\ isSearching' = FALSE
                 /\ UNCHANGED << geoInFlight, geoLog >>
            ELSE LET request == searchCityRequest(Text(Trim(newQuery)), Undefined)
                     mounting == IF Mounted THEN instance ELSE instance + 1
                     call == [instance |-> mounting, cityName |-> newQuery,
                              request |-> request, racing |-> geoInFlight]
                 IN  /\ instance' = mounting
                     /\ data' = IF Mounted THEN data ELSE <<>>
                     /\ scLoading' = TRUE
                     /\ isSearching' = TRUE
                     /\ scError' = Null
                     /\ geoLog' = Append(geoLog, call)
                     /\ geoInFlight' = geoInFlight \cup {Len(geoLog) + 1}

(***************************************************************************)
(* Main: the handlers.                                                     *)
(***************************************************************************)
\* handleInputChange without its branch for an empty or blank value
handleInputChange_keepsQuery(newValue) ==
  /\ ~Crashed
  /\ submitIgnored' = FALSE
  /\ lastSettled' = Null
  /\ newValue # city
  /\ city' = newValue
  /\ UNCHANGED << searchQuery, selectedCity, isSearching, scVars, geoInFlight, geoLog,
                  weatherData, cwError, fetchTimeout, weatherFor >>
  /\ UNCHANGED << searchHistory, searchStats, cwLoading, theme, weatherInFlight,
                  weatherLog, apiVars >>

handleInputChange(newValue) ==
  /\ ~Crashed
  /\ submitIgnored' = FALSE
  /\ lastSettled' = Null
  /\ newValue # city
  /\ city' = newValue
  /\ IF Trim(newValue) = <<>>
     THEN /\ searchQuery' = <<>>
          /\ selectedCity' = Null
          /\ SearchCityEffect(<<>>, FALSE)
          /\ CallWeatherEffect(Null)
     ELSE UNCHANGED << searchQuery, selectedCity, isSearching, scVars, geoInFlight, geoLog,
                       weatherData, cwError, fetchTimeout, weatherFor >>
  /\ UNCHANGED << searchHistory, searchStats, cwLoading, theme, weatherInFlight,
                  weatherLog, apiVars >>

\* the history without the filter: [trimmedCity, ...prev].slice(0, 5)
NewHistory_unfiltered(prev, trimmedCity) ==
  LET newHistory == <<trimmedCity>> \o prev
  IN  SubSeq(newHistory, 1, Min(Len(newHistory), 5))

\* [trimmedCity, ...prev.filter(item => item !== trimmedCity)].slice(0, 5)
NewHistory(prev, trimmedCity) ==
  LET Other(item) == item # trimmedCity
      newHistory == <<trimmedCity>> \o SelectSeq(prev, Other)
  IN  SubSeq(newHistory, 1, Min(Len(newHistory), 5))

\* handleSubmit committing the raw text instead of the trimmed one
handleSubmit_untrimmed ==
  LET trimmedCity == Trim(city)
  IN  /\ ~Crashed
      /\ lastSettled' = Null
      /\ IF trimmedCity = <<>>
         THEN /\ submitIgnored' = TRUE
              /\ UNCHANGED << city, searchQuery, selectedCity, isSearching, searchHistory,
                              searchStats, scVars, weatherData, cwError, fetchTimeout,
                              weatherFor, geoInFlight, geoLog >>
         ELSE /\ searchStats.totalSearches < MaxSubmits
              /\ submitIgnored' = FALSE
              /\ searchStats' = [searchStats EXCEPT !.totalSearches = @ + 1]
              /\ selectedCity' = Null
              /\ searchQuery' = city
              /\ searchHistory' = NewHistory(searchHistory, city)
              /\ SearchCityEffect(city, TRUE)
              /\ CallWeatherEffect(Null)
              /\ UNCHANGED city
      /\ UNCHANGED << cwLoading, theme, weatherInFlight, weatherLog, apiVars >>

handleSubmit ==
  LET trimmedCity == Trim(city)
  IN  /\ ~Crashed
      /\ lastSettled' = Null
      /\ IF trimmedCity = <<>>
         THEN /\ submitIgnored' = TRUE
              /\ UNCHANGED << city, searchQuery, selectedCity, isSearching, searchHistory,
                              searchStats, scVars, weatherData, cwError, fetchTimeout,
                              weatherFor, geoInFlight, geoLog >>
         ELSE /\ searchStats.totalSearches < MaxSubmits
              /\ submitIgnored' = FALSE
              /\ searchStats' = [searchStats EXCEPT !.totalSearches = @ + 1]
              /\ selectedCity' = Null
              /\ searchQuery' = trimmedCity
              /\ searchHistory' = NewHistory(searchHistory, trimmedCity)
              /\ SearchCityEffect(trimmedCity, TRUE)
              /\ CallWeatherEffect(Null)
              /\ UNCHANGED city
      /\ UNCHANGED << cwLoading, theme, weatherInFlight, weatherLog, apiVars >>

\* handleCitySelection without its setSearchQuery("")
handleCitySelection_keepsQuery(index) ==
  LET selectedCityData == data[index]
      enhancedCityData ==
        [f \in DOMAIN selectedCityData \cup {"selectionTime"} |->
           IF f = "selectionTime" THEN searchStats.successfulSearches + 1
           ELSE selectedCityData[f]]
  IN  /\ ~Crashed
      /\ submitIgnored' = FALSE
      /\ lastSettled' = Null
      /\ index \in DOMAIN Displayed
      /\ selectedCity' = enhancedCityData
      /\ isSearching' = FALSE
      /\ searchStats' = [searchStats EXCEPT !.successfulSearches = @ + 1]
      /\ CallWeatherEffect(enhancedCityData)
      /\ UNCHANGED << city, searchQuery, searchHistory, scVars, geoInFlight, geoLog,
                      cwLoading, theme, weatherInFlight, weatherLog, apiVars >>

\* SearchCity.handleCitySelection, which calls Main.handleCitySelection
handleCitySelection(index) ==
  LET selectedCityData == data[index]
      enhancedCityData ==
        [f \in DOMAIN selectedCityData \cup {"selectionTime"} |->
           IF f = "selectionTime" THEN searchStats.successfulSearches + 1
           ELSE selectedCityData[f]]
  IN  /\ ~Crashed
      /\ submitIgnored' = FALSE
      /\ lastSettled' = Null
      /\ index \in DOMAIN Displayed
      /\ selectedCity' = enhancedCityData
      /\ searchStats' = [searchStats EXCEPT !.successfulSearches = @ + 1]
      /\ searchQuery' = <<>>
      /\ SearchCityEffect(<<>>, FALSE)
      /\ CallWeatherEffect(enhancedCityData)
      /\ UNCHANGED << city, searchHistory, cwLoading, theme, weatherInFlight, weatherLog,
                      apiVars >>

\* the chips under the form: popular cities and recent searches
Chips ==
  (IF searchQuery = <<>> /\ ~Truthy(selectedCity)
   THEN {suggestions[i] : i \in 1..Min(Len(suggestions), 5)} ELSE {})
  \cup
  (IF searchQuery = <<>> THEN {searchHistory[i] : i \in DOMAIN searchHistory} ELSE {})

handleSuggestionClick(suggestion) ==
  /\ ~Crashed
  /\ submitIgnored' = FALSE
  /\ lastSettled' = Null
  /\ suggestion \in Chips
  /\ suggestion # city
  /\ city' = suggestion
  /\ UNCHANGED << searchQuery, selectedCity, isSearching, searchHistory, searchStats,
                  scVars, cwVars, geoInFlight, weatherInFlight, geoLog, weatherLog,
                  apiVars >>

\* the floating clear button, shown while a selection exists
ClearClick ==
  /\ ~Crashed
  /\ submitIgnored' = FALSE
  /\ lastSettled' = Null
  /\ Truthy(selectedCity)
  /\ selectedCity' = Null
  /\ city' = <<>>
  /\ searchQuery' = <<>>
  /\ SearchCityEffect(<<>>, isSearching)
  /\ CallWeatherEffect(Null)
  /\ UNCHANGED << searchHistory, searchStats, cwLoading, theme,
                  weatherInFlight, weatherLog, apiVars >>

(***************************************************************************)
(* SearchCity: the continuation of fetchCityData, and the retry button.    *)
(***************************************************************************)

\* a continuation that also drops the result of a call made for another query
Live_currentQuery(call) ==
  Mounted /\ call.instance = instance /\ call.cityName = searchQuery

\* a candidate list that outlives the presenter: every result is stored
Live_always(call) == TRUE

\* state updates of a component that is no longer mounted are dropped
Live(call) == Mounted /\ call.instance = instance

\* what the promise of call settles with when fetch ends with net
GeoSettles(call, net) ==
  IF call.request.fetch THEN searchCityResponse(net) ELSE searchCityNoFetch(call.request)

\* a continuation that drops the committed query when no city was found
GeoResponse_resetsQuery(id, net) ==
  LET call == geoLog[id]
      settled == GeoSettles(call, net)
      found == settled.kind = "return" /\ Len(settled.value) > 0
  IN  /\ ~Crashed
      /\ submitIgnored' = FALSE
      /\ id \in geoInFlight
      /\ geoInFlight' = geoInFlight \ {id}
      /\ lastSettled' = [api |-> "searchCity", id |-> id, net |-> net, outcome |-> settled]
      /\ IF Live(call)
         THEN /\ data' = IF found THEN settled.value ELSE <<>>
              /\ scError' = IF found THEN scError ELSE NoCitiesFound(call.cityName)
              /\ scLoading' = FALSE
              /\ searchQuery' = IF found THEN searchQuery ELSE <<>>
         ELSE UNCHANGED << data, scError, scLoading, searchQuery >>
      /\ isSearching' = FALSE
      /\ UNCHANGED << city, selectedCity, searchHistory, searchStats, instance,
                      cwVars, weatherInFlight, geoLog, weatherLog, apiVars >>

\* await searchCity(...) resumes: lines 98..124
GeoResponse(id, net) ==
  LET call == geoLog[id]
      settled == GeoSettles(call, net)
  IN  /\ ~Crashed
      /\ submitIgnored' = FALSE
      /\ id \in geoInFlight
      /\ geoInFlight' = geoInFlight \ {id}
      /\ lastSettled' = [api |-> "searchCity", id |-> id, net |-> net, outcome |-> settled]
      /\ IF Live(call)
         THEN /\ IF settled.kind = "return"
                 THEN /\ data' = settled.value
                      /\ scError' = IF Len(settled.value) = 0
                                    THEN NoCitiesFound(call.cityName) ELSE scError
                 ELSE /\ scError' = UnableToSearch
                      /\ data' = <<>>
              /\ scLoading' = FALSE
         ELSE UNCHANGED << data, scError, scLoading >>
      /\ isSearching' = FALSE
      /\ UNCHANGED << city, searchQuery, selectedCity, searchHistory, searchStats, instance,
                      cwVars, weatherInFlight, geoLog, weatherLog, apiVars >>

\* a "Try Again" button that starts fetchCityData again for the same cityName
RetryClick_refetches ==
  LET request == searchCityRequest(Text(Trim(searchQuery)), Undefined)
      call == [instance |-> instance, cityName |-> searchQuery,
               request |-> request, racing |-> geoInFlight]
  IN  /\ ~Crashed
      /\ submitIgnored' = FALSE
      /\ lastSettled' = Null
      /\ SearchCityView = "search-error"
      /\ scError' = Null
      /\ scLoading' = TRUE
      /\ isSearching' = TRUE
      /\ geoLog' = Append(geoLog, call)
      /\ geoInFlight' = geoInFlight \cup {Len(geoLog) + 1}
      /\ UNCHANGED << city, searchQuery, selectedCity, searchHistory, searchStats,
                      instance, data, cwVars, weatherInFlight, weatherLog, apiVars >>

\* the "Try Again" button of the search error panel: setError(null)
RetryClick ==
  /\ ~Crashed
  /\ submitIgnored' = FALSE
  /\ lastSettled' = Null
  /\ SearchCityView = "search-error"
  /\ scError' = Null
  /\ UNCHANGED << mainVars, instance, data, scLoading, cwVars,
                  geoInFlight, weatherInFlight, geoLog, weatherLog, apiVars >>

(***************************************************************************)
(* CallWeather: the timer, and the continuation of fetchWeatherData.       *)
(***************************************************************************)

\* setTimeout(fetchWeatherData, 200) fires: lines 201..208
TimeoutFires ==
  LET request == weatherByCityRequest(fetchTimeout)
      call == [selectionTime |-> fetchTimeout.selectionTime, request |-> request]
  IN  /\ ~Crashed
      /\ submitIgnored' = FALSE
      /\ lastSettled' = Null
      /\ fetchTimeout # Null
      /\ fetchTimeout' = Null
      /\ cwLoading' = TRUE
      /\ cwError' = Null
      /\ weatherLog' = Append(weatherLog, call)
      /\ weatherInFlight' = weatherInFlight \cup {Len(weatherLog) + 1}
      /\ UNCHANGED << mainVars, scVars, weatherData, theme, weatherFor, geoInFlight,
                      geoLog, apiVars >>

WeatherSettles(call, net) ==
  IF call.request.fetch THEN weatherByCityResponse(net)
  ELSE Catch(call.request.outcome, EmptyObject)

\* await weatherByCity(...) resumes: lines 208..231
WeatherResponse(id, net) ==
  LET call == weatherLog[id]
      settled == WeatherSettles(call, net)
  IN  /\ ~Crashed
      /\ submitIgnored' = FALSE
      /\ id \in weatherInFlight
      /\ weatherInFlight' = weatherInFlight \ {id}
      /\ lastSettled' = [api |-> "weatherByCity", id |-> id, net |-> net, outcome |-> settled]
      /\ IF /\ settled.kind = "return"
            /\ Truthy(settled.value)
            /\ Truthy(Get(settled.value, "main"))
         THEN /\ weatherData' = settled.value
              /\ theme' = detectTheme(Get(First(Get(settled.value, "weather")), "icon"))
              /\ weatherFor' = call.selectionTime
              /\ UNCHANGED cwError
         ELSE /\ cwError' = UnableToLoadWeather
              /\ weatherData' = EmptyObject
              /\ weatherFor' = 0
              /\ UNCHANGED theme
      /\ cwLoading' = FALSE
      /\ UNCHANGED << mainVars, scVars, fetchTimeout, geoInFlight, geoLog, weatherLog,
                      apiVars >>

\* the "Try Again" button of the weather error panel: window.location.reload()
WeatherRetryClick ==
  /\ ~Crashed
  /\ submitIgnored' = FALSE
  /\ CallWeatherView = "weather-error"
  /\ city' = <<>>
  /\ searchQuery' = <<>>
  /\ selectedCity' = Null
  /\ isSearching' = FALSE
  /\ searchHistory' = <<>>
  /\ searchStats' = [totalSearches |-> 0, successfulSearches |-> 0]
  /\ instance' = 0
  /\ data' = <<>>
  /\ scLoading' = FALSE
  /\ scError' = Null
  /\ weatherData' = EmptyObject
  /\ cwLoading' = FALSE
  /\ cwError' = Null
  /\ theme' = "day"
  /\ fetchTimeout' = Null
  /\ geoInFlight' = {}
  /\ weatherInFlight' = {}
  /\ geoLog' = <<>>
  /\ weatherLog' = <<>>
  /\ weatherFor' = 0
  /\ lastSettled' = Null
  /\ UNCHANGED apiVars

(***************************************************************************)
(* The application.                                                        *)
(***************************************************************************)
UiInit ==
  /\ city = <<>>
  /\ searchQuery = <<>>
  /\ selectedCity = Null
  /\ isSearching = FALSE
  /\ searchHistory = <<>>
  /\ searchStats = [totalSearches |-> 0, successfulSearches |-> 0]
  /\ submitIgnored = FALSE
  /\ instance = 0
  /\ data = <<>>
  /\ scLoading = FALSE
  /\ scError = Null
  /\ weatherData = EmptyObject
  /\ cwLoading = FALSE
  /\ cwError = Null
  /\ theme = "day"
  /\ fetchTimeout = Null
  /\ geoInFlight = {}
  /\ weatherInFlight = {}
  /\ geoLog = <<>>
  /\ weatherLog = <<>>
  /\ weatherFor = 0
  /\ lastSettled = Null

ApiInit ==
  /\ apiPc = "idle"
  /\ apiCall = Null
  /\ apiRequest = Null
  /\ apiNet = Null
  /\ apiOutcome = Null

Init == UiInit /\ ApiInit

Next ==
  \/ \E newValue \in InputTexts : handleInputChange(newValue)
  \/ handleSubmit
  \/ \E index \in DOMAIN data : handleCitySelection(index)
  \/ \E suggestion \in InputTexts : handleSuggestionClick(suggestion)
  \/ ClearClick
  \/ RetryClick
  \/ \E id \in geoInFlight, net \in GeoNets : GeoResponse(id, net)
  \/ TimeoutFires
  \/ \E id \in weatherInFlight, net \in WeatherNets : WeatherResponse(id, net)
  \/ WeatherRetryClick

Spec == Init /\ [][Next]_vars

(***************************************************************************)
(* searchCity and weatherByCity called on their own, with any argument     *)
(* and any answer of the network, and the weather box rendered on its own  *)
(* for any response.                                                       *)
(***************************************************************************)
RECURSIVE SeqsUpTo(_, _)
SeqsUpTo(S, n) ==
  IF n = 0 THEN {<<>>}
  ELSE LET shorter == SeqsUpTo(S, n - 1)
       IN  shorter \cup {Append(q, e) : q \in shorter, e \in S}

ApiQueries ==
  { Undefined, Null, Text(<<>>), Text(<<" ">>), Text(<<" ", " ">>), Text(Paris),
    Text(<<" ">> \o Paris \o <<" ">>) }

ApiLimits == {Undefined} \cup {Num(n) : n \in -1..7}

ApiEntries ==
  { CityParis, CityQuito, CityNoName, CityEmptyName, CityTextLat, CityNoLon, Null }

ApiStatuses == {301, 401, 404, 500}

ApiGeoNets ==
  {NetReject, NetHttp(200, InvalidJson), NetHttp(200, EmptyObject), NetHttp(200, Null)}
  \cup {NetHttp(status, Null) : status \in ApiStatuses}
  \cup {NetHttp(200, List(body)) : body \in SeqsUpTo(ApiEntries, MaxBodyLen)}

ApiCities == {Undefined, Null, CityParis, CityQuito, CityTextLat, CityNoLon}

ApiWeatherNets ==
  WeatherNets \cup {NetHttp(200, InvalidJson), NetHttp(200, Null)}
  \cup {NetHttp(200, [weather |-> List(<<Condition(Icon01d)>>), wind |-> Wind])}
  \cup {NetHttp(status, Null) : status \in ApiStatuses}

\* temperatures in tenths of a degree
RenderTemps == {Num(t) : t \in {-26, -25, -15, -5, -4, 0, 4, 5, 14, 15, 16, 154, 156}}

RenderDescriptions ==
  {Text(ClearSky)} \cup {Text(d) : d \in SeqsUpTo({"a", "k", " ", "S", "1"}, MaxDescLen)}

RenderHumidities == {Num(0), Num(60), Num(100)}

ApiSearchCity(cityQuery, resultLimit) ==
  LET request == searchCityRequest(cityQuery, resultLimit)
  IN  /\ apiPc = "idle"
      /\ apiCall' = [fn |-> "searchCity", cityQuery |-> cityQuery, resultLimit |-> resultLimit]
      /\ IF request.fetch
         THEN /\ apiPc' = "fetching"
              /\ apiRequest' = request
              /\ apiOutcome' = Null
         ELSE /\ apiPc' = "settled"
              /\ apiRequest' = Null
              /\ apiOutcome' = searchCityNoFetch(request)
      /\ UNCHANGED << apiNet, uiVars >>

ApiWeatherByCity(cityObject) ==
  LET request == weatherByCityRequest(cityObject)
  IN  /\ apiPc = "idle"
      /\ apiCall' = [fn |-> "weatherByCity", cityObject |-> cityObject]
      /\ IF request.fetch
         THEN /\ apiPc' = "fetching"
              /\ apiRequest' = request
              /\ apiOutcome' = Null
         ELSE /\ apiPc' = "settled"
              /\ apiRequest' = Null
              /\ apiOutcome' = Catch(request.outcome, EmptyObject)
      /\ UNCHANGED << apiNet, uiVars >>

\* fetch settles with net and the call runs to its end
ApiSearchCitySettles(net) ==
  /\ apiPc = "fetching"
  /\ apiCall.fn = "searchCity"
  /\ apiPc' = "settled"
  /\ apiNet' = net
  /\ apiOutcome' = searchCityResponse(net)
  /\ UNCHANGED << apiCall, apiRequest, uiVars >>

ApiWeatherByCitySettles(net) ==
  /\ apiPc = "fetching"
  /\ apiCall.fn = "weatherByCity"
  /\ apiPc' = "settled"
  /\ apiNet' = net
  /\ apiOutcome' = weatherByCityResponse(net)
  /\ UNCHANGED << apiCall, apiRequest, uiVars >>

\* CallWeather renders its weather box for a response
ApiRenderWeatherBox ==
  /\ apiPc = "idle"
  /\ \E temp \in RenderTemps, description \in RenderDescriptions,
        humidity \in RenderHumidities :
       LET w == [ main |-> [temp |-> temp, feels_like |-> temp, humidity |-> humidity],
                  weather |-> List(<<[description |-> description, main |-> Str("Clear"),
                                      icon |-> Icon01d]>>),
                  wind |-> Wind ]
       IN  /\ apiCall' = [fn |-> "CallWeather", weatherData |-> w]
           /\ apiOutcome' = WeatherBox(w)
  /\ apiPc' = "settled"
  /\ apiRequest' = Null
  /\ UNCHANGED << apiNet, uiVars >>

\* the texts submitted one after the other: HistoryCities different city
\* names, one of them also with blanks around it, and two blank texts
HistoryLetters == <<"a", "b", "c", "d", "e", "f", "g", "h">>

HistoryTexts ==
  {<<HistoryLetters[i]>> : i \in 1..HistoryCities}
    \cup {<<" ", HistoryLetters[1], " ">>, <<" ">>, <<>>}

\* handleSubmit run again and again, for what it does to the search history:
\* lines 96-97 and 116-119.  apiOutcome holds the history, apiCall the last
\* accepted submit.
ApiHandleSubmit ==
  /\ apiPc \in {"idle", "submitted"}
  /\ \E text \in HistoryTexts :
       LET trimmedCity == Trim(text)
           prev == IF apiPc = "idle" THEN <<>> ELSE apiOutcome.list
       IN  IF trimmedCity = <<>>
           THEN UNCHANGED << apiPc, apiCall, apiOutcome >>
           ELSE /\ apiPc' = "submitted"
                /\ apiCall' = [fn |-> "handleSubmit", city |-> text]
                /\ apiOutcome' = List(NewHistory(prev, trimmedCity))
  /\ UNCHANGED << apiRequest, apiNet, uiVars >>

ApiNext ==
  \/ \E cityQuery \in ApiQueries, resultLimit \in ApiLimits :
       ApiSearchCity(cityQuery, resultLimit)
  \/ \E cityObject \in ApiCities : ApiWeatherByCity(cityObject)
  \/ \E net \in ApiGeoNets : ApiSearchCitySettles(net)
  \/ \E net \in ApiWeatherNets : ApiWeatherByCitySettles(net)
  \/ ApiRenderWeatherBox
  \/ ApiHandleSubmit

ApiSpec == Init /\ [][ApiNext]_vars

(***************************************************************************)
(* Properties.                                                             *)
(***************************************************************************)
NetFailed(net) == net.kind = "reject" \/ ~ResponseOk(net)

\* the step in which a call of searchCity by the application settles
GeoSettleStep == geoLog' = geoLog /\ geoInFlight' # geoInFlight

\* the step in which a call of weatherByCity by the application settles
WeatherSettleStep == weatherLog' = weatherLog /\ weatherInFlight' # weatherInFlight

\* the step in which a candidate is picked
PickStep == searchStats'.successfulSearches = searchStats.successfulSearches + 1

\* C1: in every reachable state the weather data the weather presenter holds
\* was fetched for the selection that is current in that state.
C1_WeatherDataIsForCurrentSelection ==
  Truthy(Get(weatherData, "main")) =>
    /\ Truthy(selectedCity)
    /\ weatherFor = selectedCity.selectionTime

\* C2: searchCity called with an empty or whitespace-only string issues no
\* request and returns an empty list.
C2_BlankQueryIssuesNoRequest ==
  ( /\ apiPc # "idle"
    /\ apiCall.fn = "searchCity"
    /\ IsText(apiCall.cityQuery)
    /\ Trim(apiCall.cityQuery.text) = <<>> )
  => /\ apiPc = "settled"
     /\ apiRequest = Null
     /\ apiOutcome = Return(<<>>)

\* an entry with a name and with numbers as lat and lon
WellFormed(entry) ==
  /\ entry # Null
  /\ {"name", "lat", "lon"} \subseteq DOMAIN entry
  /\ entry.name # Str("")
  /\ IsNum(entry.lat)
  /\ IsNum(entry.lon)

\* C3: for a successful response whose body is a list, searchCity returns
\* exactly the well-formed entries (a name, lat and lon numbers) of the body,
\* unchanged and in their order in the body.
C3_ReturnsTheWellFormedEntries ==
  ( /\ apiPc = "settled"
    /\ apiCall.fn = "searchCity"
    /\ apiNet # Null
    /\ apiNet.kind = "http"
    /\ ResponseOk(apiNet)
    /\ IsList(apiNet.body) )
  => apiOutcome = Return(SelectSeq(apiNet.body.list, WellFormed))

C3_Witness ==
  /\ apiPc = "settled"
  /\ apiCall.fn = "searchCity"
  /\ apiNet = NetHttp(200, List(<<CityQuito, CityTextLat, CityParis>>))
  /\ apiOutcome = Return(<<CityQuito, CityParis>>)

\* C4: when fetch is rejected or answers with a status outside 200..299,
\* searchCity settles with an empty list and weatherByCity with an empty
\* object; neither settles with an error.
C4_FailureGivesEmptyResult ==
  (apiPc = "settled" /\ apiNet # Null /\ NetFailed(apiNet))
  => apiOutcome = Return(IF apiCall.fn = "searchCity" THEN <<>> ELSE EmptyObject)

C4_Witness ==
  /\ apiPc = "settled"
  /\ apiCall.fn = "weatherByCity"
  /\ apiNet = NetHttp(500, Null)
  /\ apiOutcome = Return(EmptyObject)

\* C5 as stated: picking a candidate stores it as the selection and, in the
\* same step, leaves the candidate list empty and the raw input text empty.
C5_PickClearsCandidatesAndInput ==
  [][PickStep => (Truthy(selectedCity') /\ data' = <<>> /\ city' = <<>>)]_vars

\* C5 amended: picking a candidate stores it as the selection and, in the same
\* step, leaves the candidate list empty and the committed query empty; the
\* raw input text keeps the value it had.
C5_PickClearsCandidatesAndQuery ==
  [][PickStep =>
       /\ \E index \in DOMAIN Displayed :
            \A f \in DOMAIN data[index] : Get(selectedCity', f) = data[index][f]
       /\ data' = <<>>
       /\ searchQuery' = <<>>
       /\ city' = city]_vars

C5_Witness ==
  /\ Truthy(selectedCity)
  /\ fetchTimeout = selectedCity
  /\ data = <<>>
  /\ searchQuery = <<>>
  /\ city = Paris

\* C6: once a candidate is picked and the selection is left as it is, there
\* is exactly one weather request for it (as soon as the presenter's delay is
\* over), and it carries the candidate's latitude and longitude.
C6_PickLeadsToOneRequest ==
  (Truthy(selectedCity) /\ fetchTimeout = Null) =>
    /\ Cardinality({id \in DOMAIN weatherLog :
                      weatherLog[id].selectionTime = selectedCity.selectionTime}) = 1
    /\ \A id \in DOMAIN weatherLog :
         weatherLog[id].selectionTime = selectedCity.selectionTime =>
           /\ weatherLog[id].request.fetch
           /\ weatherLog[id].request.lat = selectedCity.lat.num
           /\ weatherLog[id].request.lon = selectedCity.lon.num

\* the call that settles in this step raced an already settled call made for
\* another query: the two were outstanding at the same time
SettlesLastOfTwo ==
  /\ GeoSettleStep
  /\ \E other \in DOMAIN geoLog \ geoInFlight :
       /\ geoLog[other].cityName # geoLog[lastSettled'.id].cityName
       /\ \/ other \in geoLog[lastSettled'.id].racing
          \/ lastSettled'.id \in geoLog[other].racing

\* C7 as stated: when two geocoding requests for different committed queries
\* are outstanding at the same time, after both have resolved the displayed
\* candidate list is the result of the one that resolved last.
C7_LastResolvedIsDisplayed ==
  [][SettlesLastOfTwo => Displayed' = lastSettled'.outcome.value]_vars

\* C7 amended: ... and the one that resolves last was issued by the mounting
\* of the result presenter that is still the current one, after both have
\* resolved the candidate list the presenter holds is the result of the one
\* that resolved last, whichever query is the current one; it is the displayed
\* list unless the presenter holds an error message.
C7_LastResolvedIsHeld ==
  [][(SettlesLastOfTwo /\ Mounted /\ geoLog[lastSettled'.id].instance = instance) =>
       /\ data' = lastSettled'.outcome.value
       /\ (~Truthy(scError') => Displayed' = lastSettled'.outcome.value)]_vars

C7_Witness ==
  /\ Mounted
  /\ lastSettled # Null
  /\ lastSettled.api = "searchCity"
  /\ geoInFlight = {}
  /\ Len(geoLog) = 2
  /\ lastSettled.id = 1
  /\ 1 \in geoLog[2].racing
  /\ geoLog[1].instance = instance
  /\ geoLog[1].cityName # searchQuery
  /\ data = lastSettled.outcome.value
  /\ Displayed = <<CityParis>>

\* C8: in every reachable state without a selection the weather presenter
\* holds no weather data and no error message.
C8_NoSelectionNoWeather ==
  ~Truthy(selectedCity) =>
    /\ ~Truthy(Get(weatherData, "main"))
    /\ ~Truthy(cwError)

\* C9: whatever the endpoints answer, no render throws.
C9_RenderNeverThrows == CallWeatherView # "throws"

RetrySuggesting(error) == error \in {UnableToSearch, UnableToLoadWeather}

\* C10: when the request for the current query, or for the current selection,
\* fails (transport failure or a status outside 200..299), the presenter holds
\* a message suggesting a retry and its data (candidate list, weather data) is
\* empty.
C10_FailureShowsRetryMessage ==
  [][/\ ( /\ GeoSettleStep
          /\ NetFailed(lastSettled'.net)
          /\ Mounted
          /\ geoLog[lastSettled'.id].instance = instance
          /\ geoLog[lastSettled'.id].cityName = searchQuery )
        => (RetrySuggesting(scError') /\ data' = <<>>)
     /\ ( /\ WeatherSettleStep
          /\ NetFailed(lastSettled'.net)
          /\ Truthy(selectedCity)
          /\ weatherLog[lastSettled'.id].selectionTime = selectedCity.selectionTime )
        => (RetrySuggesting(cwError') /\ weatherData' = EmptyObject)]_vars

\* a success status with a geocoding body that is not a list
MalformedGeo(net) ==
  net.kind = "http" /\ ResponseOk(net) /\ net.body # InvalidJson /\ ~IsList(net.body)

\* a success status with a weather body that lacks main or weather
MalformedWeather(net) ==
  /\ net.kind = "http"
  /\ ResponseOk(net)
  /\ net.body # InvalidJson
  /\ (~Truthy(Get(net.body, "main")) \/ ~Truthy(Get(net.body, "weather")))

\* the call of searchCity that settles in this step updates a mounted presenter
GeoSettlesLive ==
  GeoSettleStep /\ Mounted /\ geoLog[lastSettled'.id].instance = instance

\* C11 as stated: a response with a success status and a malformed body
\* (geocoding body that is not a list; weather body without main or weather)
\* leaves the presenter with an empty result and without an error message.
C11_MalformedBodyShowsNoError ==
  [][/\ (GeoSettlesLive /\ MalformedGeo(lastSettled'.net))
        => (data' = <<>> /\ ~Truthy(scError'))
     /\ (WeatherSettleStep /\ MalformedWeather(lastSettled'.net))
        => (weatherData' = EmptyObject /\ ~Truthy(cwError'))]_vars

\* C11 amended: such a response makes searchCity return an empty list and
\* weatherByCity an empty object, and the presenter then holds an empty result
\* together with the message it holds for every empty result: "No cities
\* found matching" the query of the request (when the result presenter that
\* issued it is still mounted), "Unable to load weather data" for the weather.
C11_MalformedBodyShowsEmptyResultMessage ==
  [][/\ (GeoSettleStep /\ MalformedGeo(lastSettled'.net))
        => lastSettled'.outcome = Return(<<>>)
     /\ (GeoSettlesLive /\ MalformedGeo(lastSettled'.net))
        => /\ data' = <<>>
           /\ scError' = NoCitiesFound(geoLog[lastSettled'.id].cityName)
     /\ (WeatherSettleStep /\ MalformedWeather(lastSettled'.net))
        => /\ lastSettled'.outcome = Return(EmptyObject)
           /\ weatherData' = EmptyObject
           /\ cwError' = UnableToLoadWeather]_vars

C11_Witness ==
  /\ lastSettled # Null
  /\ lastSettled.api = "weatherByCity"
  /\ lastSettled.net = NetHttp(200, [main |-> MainMetrics, wind |-> Wind])
  /\ lastSettled.outcome = Return(EmptyObject)
  /\ weatherData = EmptyObject
  /\ cwError = UnableToLoadWeather
  /\ ~cwLoading

\* a success status with an empty list as the body
EmptyListNet == NetHttp(200, List(<<>>))

\* everything of the application's state but the record of what fetch ended with
Observable ==
  << city, searchQuery, selectedCity, isSearching, searchHistory, searchStats, instance,
     data, scLoading, scError, weatherData, cwLoading, cwError, theme, fetchTimeout,
     geoInFlight, weatherInFlight, geoLog, weatherLog, weatherFor >>

\* the state a call of searchCity leaves when it settles with an empty list,
\* told from the state before and the call alone
AfterEmptyResult(id) ==
  LET live == Mounted /\ geoLog[id].instance = instance
  IN  << city, searchQuery, selectedCity, FALSE, searchHistory, searchStats, instance,
         IF live THEN <<>> ELSE data,
         IF live THEN FALSE ELSE scLoading,
         IF live THEN NoCitiesFound(geoLog[id].cityName) ELSE scError,
         weatherData, cwLoading, cwError, theme, fetchTimeout,
         geoInFlight \ {id}, weatherInFlight, geoLog, weatherLog, weatherFor >>

\* C12: whether the geocoding request fails (transport failure, status outside
\* 200..299) or succeeds with an empty list, searchCity returns the same value
\* (an empty list) and the application reaches the same state: the state after
\* is told by the state before and the request alone.
C12_FailureLooksLikeNoResults ==
  [][(GeoSettleStep /\ (NetFailed(lastSettled'.net) \/ lastSettled'.net = EmptyListNet))
       => /\ lastSettled'.outcome = Return(<<>>)
          /\ Observable' = AfterEmptyResult(lastSettled'.id)]_vars

C12_Witness ==
  /\ lastSettled # Null
  /\ lastSettled.api = "searchCity"
  /\ lastSettled.net = NetReject
  /\ lastSettled.outcome = Return(<<>>)
  /\ Mounted
  /\ geoLog[lastSettled.id].cityName = searchQuery
  /\ SearchCityView = "search-error"
  /\ scError = NoCitiesFound(searchQuery)
  /\ data = <<>>

\* C13: a submit while the raw input is empty or only whitespace issues no
\* geocoding request, leaves the committed query as it was and leaves the
\* candidate list empty.
C13_BlankSubmitIsIgnored ==
  [][submitIgnored' =>
       /\ Trim(city) = <<>>
       /\ geoLog' = geoLog
       /\ geoInFlight' = geoInFlight
       /\ searchQuery' = searchQuery
       /\ data = <<>>
       /\ data' = <<>>]_vars

C13_Witness ==
  /\ submitIgnored
  /\ city = <<" ">>
  /\ Len(geoLog) = 1
  /\ geoInFlight = {1}
  /\ searchQuery = <<>>
  /\ data = <<>>

\* the result presenter tells the user that no city matched: its error panel
\* with the "No cities found" message, or its "No Cities Found" panel
NoResultsShown ==
  \/ SearchCityView = "search-error" /\ scError = NoCitiesFound(searchQuery)
  \/ SearchCityView = "search-empty"

\* the step in which weatherByCity is called
WeatherCallStep == Len(weatherLog') = Len(weatherLog) + 1

\* C14: when the geocoding response for the committed query is an empty list,
\* the result presenter shows that no city matched, no selection exists and no
\* weather request is pending; and a weather request is only ever issued for
\* the selection that is current, so none follows before a later pick.
C14_EmptyListShowsNoResults ==
  [][/\ ( /\ GeoSettlesLive
          /\ lastSettled'.net = EmptyListNet
          /\ geoLog[lastSettled'.id].cityName = searchQuery )
        => /\ NoResultsShown'
           /\ Displayed' = <<>>
           /\ ~Truthy(selectedCity')
           /\ fetchTimeout' = Null
           /\ weatherLog' = weatherLog
     /\ WeatherCallStep
        => /\ Truthy(selectedCity)
           /\ weatherLog'[Len(weatherLog')].selectionTime = selectedCity.selectionTime
           /\ searchStats.successfulSearches = selectedCity.selectionTime]_vars

C14_Witness ==
  /\ lastSettled # Null
  /\ lastSettled.api = "searchCity"
  /\ lastSettled.net = EmptyListNet
  /\ Mounted
  /\ geoLog[lastSettled.id].cityName = searchQuery
  /\ SearchCityView = "search-error"
  /\ scError = NoCitiesFound(searchQuery)
  /\ selectedCity = Null
  /\ fetchTimeout = Null
  /\ Len(weatherLog) = 1

\* the icon code of the response the weather presenter displays
DisplayedIcon == Get(weatherData.weather.list[1], "icon")

\* C15: whenever the weather presenter displays weather data, the theme is
\* night if the icon code of the displayed response contains the character
\* 'n', and day if it does not or if the response has no icon code.
C15_ThemeFollowsIcon ==
  CallWeatherView = "weather-box" =>
    theme = IF DisplayedIcon = Undefined THEN "day"
            ELSE IF \E i \in DOMAIN DisplayedIcon.text : DisplayedIcon.text[i] = "n"
                 THEN "night"
                 ELSE "day"

\* a night response is displayed after a day response was
C15_Witness ==
  /\ CallWeatherView = "weather-box"
  /\ DisplayedIcon = Icon01n
  /\ theme = "night"
  /\ Len(weatherLog) = 2
  /\ weatherInFlight = {}

\* a response without an icon code is displayed after a night response was
C15_WitnessNoIcon ==
  /\ CallWeatherView = "weather-box"
  /\ DisplayedIcon = Undefined
  /\ theme = "day"
  /\ Len(weatherLog) = 2

\* C16: for a successful weather response the weather box shows the
\* temperature rounded to the nearest integer followed by the degree sign, the
\* description with the first letter of every word in upper case and the rest
\* as it is, and the humidity followed by '%'.
C16_WeatherBoxFormats ==
  (apiPc = "settled" /\ apiCall.fn = "CallWeather") =>
    LET w == apiCall.weatherData
        raw == w.weather.list[1].description.text
        shown == apiOutcome.description.text
        degrees == apiOutcome.temperature[1].num
    IN  /\ apiOutcome.temperature[2] = "°"
        /\ 10 * degrees - w.main.temp.num <= 5
        /\ w.main.temp.num - 10 * degrees <= 5
        /\ Len(shown) = Len(raw)
        /\ \A i \in DOMAIN raw :
             shown[i] = IF i = 1 \/ raw[i - 1] = " " THEN UpperCase(raw[i]) ELSE raw[i]
        /\ apiOutcome.humidity = <<w.main.humidity, "%">>

\* temp 15.4, "clear sky", humidity 60 is shown as 15 degrees, "Clear Sky", 60%
C16_Witness ==
  /\ apiPc = "settled"
  /\ apiCall.fn = "CallWeather"
  /\ apiCall.weatherData.main = [temp |-> Num(154), feels_like |-> Num(154), humidity |-> Num(60)]
  /\ apiCall.weatherData.weather.list[1].description = Text(ClearSky)
  /\ apiOutcome.temperature = <<Num(15), "°">>
  /\ apiOutcome.description = Text(<<"C", "l", "e", "a", "r", " ", "S", "k", "y">>)
  /\ apiOutcome.humidity = <<Num(60), "%">>

\* idle: no committed query and no selection
Idle == searchQuery = <<>> /\ ~Truthy(selectedCity)

\* the step in which a submit is accepted
SubmitStep == searchStats'.totalSearches = searchStats.totalSearches + 1

\* the call of searchCity that settles in this step is the only one the
\* current mounting of the result presenter made, and it was made for the
\* committed query
SettlesTheSearch ==
  /\ GeoSettlesLive
  /\ geoLog[lastSettled'.id].cityName = searchQuery
  /\ \A other \in DOMAIN geoLog :
       geoLog[other].instance = instance => other = lastSettled'.id

\* C17: from idle, a submit of input that is not empty after trimming commits
\* the trimmed text and puts a geocoding request for it in flight (searching);
\* when that response arrives the presenter is neither searching nor loading
\* and shows the candidates, or, when there are none, that no city matched.
C17_SubmitSearchesThenShowsResults ==
  [][/\ (SubmitStep /\ Idle)
        => /\ Trim(city) # <<>>
           /\ searchQuery' = Trim(city)
           /\ isSearching'
           /\ SearchCityView' = "search-loading"
           /\ Len(geoLog') = Len(geoLog) + 1
           /\ geoLog'[Len(geoLog')].cityName = Trim(city)
           /\ geoLog'[Len(geoLog')].request.fetch
           /\ geoLog'[Len(geoLog')].request.q = Trim(city)
           /\ geoInFlight' = geoInFlight \cup {Len(geoLog')}
     /\ SettlesTheSearch
        => /\ ~isSearching'
           /\ IF lastSettled'.outcome.value = <<>>
              THEN NoResultsShown' /\ Displayed' = <<>>
              ELSE /\ SearchCityView' = "search-results"
                   /\ Displayed' = lastSettled'.outcome.value]_vars

\* the empty-results sub-state after a submit of " Paris " from idle
C17_Witness ==
  /\ city = <<" ">> \o Paris \o <<" ">>
  /\ searchQuery = Paris
  /\ Len(geoLog) = 1
  /\ geoInFlight = {}
  /\ weatherLog = <<>>
  /\ lastSettled # Null
  /\ lastSettled.net = EmptyListNet
  /\ ~isSearching
  /\ NoResultsShown

\* the results-shown state after a submit from idle
C17_WitnessResults ==
  /\ searchQuery = Paris
  /\ Len(geoLog) = 1
  /\ lastSettled # Null
  /\ ~isSearching
  /\ SearchCityView = "search-results"
  /\ Displayed = <<CityQuito, CityParis>>

\* a new search can be started: a text can be typed, and a typed text submitted
NewSearchCanStart ==
  IF Trim(city) = <<>>
  THEN ENABLED (\E newValue \in InputTexts :
                  Trim(newValue) # <<>> /\ handleInputChange(newValue))
  ELSE searchStats.totalSearches < MaxSubmits => ENABLED handleSubmit

\* C18: from the selected state, a change of the input to an empty or blank
\* text leaves no committed query and no selection, and a submit of a text
\* that is not blank leaves no selection and a geocoding request in flight;
\* and in every reachable state a new search can be started.
C18_ReentrantFromSelected ==
  /\ []NewSearchCanStart
  /\ [][/\ (Truthy(selectedCity) /\ city' # city /\ Trim(city') = <<>>)
           => (searchQuery' = <<>> /\ selectedCity' = Null)
        /\ (Truthy(selectedCity) /\ SubmitStep)
           => /\ selectedCity' = Null
              /\ searchQuery' = Trim(city)
              /\ isSearching'
              /\ Len(geoLog') = Len(geoLog) + 1
              /\ Len(geoLog') \in geoInFlight']_vars

\* C19: in every reachable state without a committed query the result
\* presenter holds no candidates and none is displayed, also right after a
\* geocoding response has arrived.
C19_NoQueryNoCandidates ==
  searchQuery = <<>> => (data = <<>> /\ Displayed = <<>>)

\* a response with candidates has just arrived after a pick emptied the query
C19_Witness ==
  /\ searchQuery = <<>>
  /\ Truthy(selectedCity)
  /\ lastSettled # Null
  /\ lastSettled.api = "searchCity"
  /\ lastSettled.outcome = Return(<<CityParis>>)
  /\ data = <<>>

\* C20: for a response with a success status, weatherByCity returns an empty
\* object when the parsed body lacks main or lacks weather, and the parsed
\* body itself when it has both.
C20_WeatherBodyNeedsMainAndWeather ==
  ( /\ apiPc = "settled"
    /\ apiCall.fn = "weatherByCity"
    /\ apiNet # Null
    /\ apiNet.kind = "http"
    /\ ResponseOk(apiNet)
    /\ apiNet.body # InvalidJson )
  => apiOutcome = IF {"main", "weather"} \subseteq DOMAIN apiNet.body
                  THEN Return(apiNet.body)
                  ELSE Return(EmptyObject)

C20_Witness ==
  /\ apiPc = "settled"
  /\ apiCall.fn = "weatherByCity"
  /\ apiNet = NetHttp(200, [main |-> MainMetrics, wind |-> Wind])
  /\ apiOutcome = Return(EmptyObject)

\* a body with main and weather is returned as it is
C20_WitnessUnchanged ==
  /\ apiPc = "settled"
  /\ apiCall.fn = "weatherByCity"
  /\ apiNet = NetHttp(200, [main |-> MainMetrics, weather |-> List(<<>>), wind |-> Wind])
  /\ apiOutcome = Return(apiNet.body)

\* C21: the limit searchCity sends is the requested limit clamped to 1..5, and
\* 5 when no limit is given: for every integer L it is max(1, min(5, L)).
C21_LimitIsClamped ==
  ( /\ apiPc # "idle"
    /\ apiCall.fn = "searchCity"
    /\ apiRequest # Null )
  => apiRequest.limit = IF apiCall.resultLimit = Undefined THEN 5
                        ELSE Max(1, Min(5, apiCall.resultLimit.num))

\* the response that has just arrived came from api and was a failure
FailedAt(api) ==
  /\ lastSettled # Null
  /\ lastSettled.api = api
  /\ NetFailed(lastSettled.net)

GeoCallStep == Len(geoLog') = Len(geoLog) + 1

\* C22: no request is retried automatically.  A response (failed or not)
\* issues no request and starts no timer; a geocoding request is issued only by
\* a submit; a weather request is issued only by the timer that a selection
\* started, once for that selection, and a timer is started only by a
\* selection.  So after a failure nothing is sent to the endpoint until the
\* user submits or selects anew.
C22_RequestsOnlyFromUserActions ==
  [][ /\ lastSettled' # Null =>
           /\ geoLog' = geoLog
           /\ weatherLog' = weatherLog
           /\ fetchTimeout' = fetchTimeout
      /\ Len(geoLog') > Len(geoLog) => GeoCallStep /\ SubmitStep
      /\ Len(weatherLog') > Len(weatherLog) =>
           /\ WeatherCallStep
           /\ fetchTimeout # Null
           /\ fetchTimeout' = Null
           /\ weatherLog'[Len(weatherLog')].selectionTime = fetchTimeout.selectionTime
      /\ (fetchTimeout' # Null /\ fetchTimeout' # fetchTimeout) => PickStep ]_vars

\* a weather request has just failed while the timer of a newer selection runs
C22_WitnessNewerSelection ==
  /\ FailedAt("weatherByCity")
  /\ fetchTimeout # Null
  /\ ENABLED TimeoutFires

\* a geocoding request has just failed and its error panel offers "Try Again"
C22_Witness ==
  /\ FailedAt("searchCity")
  /\ SearchCityView = "search-error"
  /\ ENABLED RetryClick

\* some error message is on the screen
ErrorMessageShown ==
  \/ SearchCityView = "search-error"
  \/ CallWeatherView = "weather-error"

\* the geocoding response that has just arrived says that the committed query
\* of the mounted result presenter matched no city
CityNotFound ==
  /\ lastSettled # Null
  /\ lastSettled.api = "searchCity"
  /\ lastSettled.net = EmptyListNet
  /\ Mounted
  /\ geoLog[lastSettled.id].instance = instance
  /\ geoLog[lastSettled.id].cityName = searchQuery

\* C23: when the searched city is not found, or the submitted input is invalid
\* (empty or only whitespace), an error message is shown to the user.
C23_ErrorMessageForNotFoundOrInvalid ==
  /\ CityNotFound => SearchCityView = "search-error" /\ scError = NoCitiesFound(searchQuery)
  /\ submitIgnored => ErrorMessageShown

\* C24: isSearching is never true while no geocoding request is outstanding
\* (so once every outstanding response has arrived it is false again), also
\* after a submit of the text that already is the committed query.
C24_SearchingOnlyWhileRequestOutstanding ==
  isSearching => geoInFlight # {}

\* a request of the mounted result presenter for the committed query is outstanding
CurrentQueryOutstanding ==
  /\ Mounted
  /\ \E id \in geoInFlight : /\ geoLog[id].instance = instance
                             /\ geoLog[id].cityName = searchQuery

\* C25: whenever a geocoding request for the current committed query is
\* outstanding, the result presenter's loading flag is true: the loading state
\* is shown and no candidate list is displayed, also when an earlier request
\* for a different query resolves in the meantime.
C25_LoadingWhileCurrentRequestOutstanding ==
  CurrentQueryOutstanding =>
    /\ scLoading
    /\ SearchCityView = "search-loading"
    /\ Displayed = <<>>

\* C26: in every reachable state the committed query is empty or the selection
\* is none; a non-empty committed query and a stored selection never coexist.
C26_QueryOrSelectionNotBoth ==
  searchQuery = <<>> \/ selectedCity = Null

\* a candidate was picked for a committed query: the query is gone
C26_Witness ==
  /\ Truthy(selectedCity)
  /\ searchQuery = <<>>
  /\ Trim(city) # <<>>
  /\ searchStats.successfulSearches = 1

\* a submit from the selected state: the selection is gone
C26_WitnessResubmit ==
  /\ searchQuery # <<>>
  /\ selectedCity = Null
  /\ searchStats.successfulSearches = 1
  /\ searchStats.totalSearches = 2

\* C27: a timer that is pending belongs to the current selection, so a
\* selection that changes or is cleared within the 200 ms delay takes its timer
\* with it and no request is ever issued for it; and every weather request that
\* is issued carries the coordinates of the selection current at that moment.
C27_RequestsOnlyForCurrentSelection ==
  [][ /\ fetchTimeout' # Null => fetchTimeout' = selectedCity'
      /\ WeatherCallStep =>
           LET issued == weatherLog'[Len(weatherLog')]
           IN  /\ Truthy(selectedCity)
               /\ selectedCity' = selectedCity
               /\ issued.selectionTime = selectedCity.selectionTime
               /\ issued.request.fetch
               /\ issued.request.lat = selectedCity.lat.num
               /\ issued.request.lon = selectedCity.lon.num ]_vars

\* the timer of the second selection is pending and the first selection, left
\* within its delay, never had a request
C27_Witness ==
  /\ fetchTimeout # Null
  /\ fetchTimeout.selectionTime = 2
  /\ weatherLog = <<>>
  /\ weatherInFlight = {}

\* the only request issued is the one of the second selection
C27_WitnessIssued ==
  /\ Len(weatherLog) = 1
  /\ weatherLog[1].selectionTime = 2
  /\ Truthy(selectedCity)
  /\ weatherLog[1].request.lat = selectedCity.lat.num

\* C28: after any sequence of submits the search history holds at most 5
\* entries, holds no entry twice, holds only trimmed non-empty queries, and its
\* first entry is the most recently submitted query.
C28_HistoryShape ==
  apiPc = "submitted" =>
    LET history == apiOutcome.list
    IN  /\ Len(history) <= 5
        /\ \A i, j \in DOMAIN history : i # j => history[i] # history[j]
        /\ \A i \in DOMAIN history : history[i] # <<>> /\ Trim(history[i]) = history[i]
        /\ history[1] = Trim(apiCall.city)

\* a full history after six different cities, the last submit being the
\* first city again, typed with blanks around it
C28_Witness ==
  /\ apiPc = "submitted"
  /\ apiCall.city = <<" ", "a", " ">>
  /\ apiOutcome.list = << <<"a">>, <<"f">>, <<"e">>, <<"d">>, <<"c">> >>

\* C29: in every reachable state the count of successful searches is at most
\* the count of total searches; and candidates can be picked only while some
\* submit has not been followed by a pick yet, so at most one pick follows
\* each submit.
C29_SuccessfulAtMostTotal ==
  /\ searchStats.successfulSearches <= searchStats.totalSearches
  /\ Displayed # <<>> => searchStats.successfulSearches < searchStats.totalSearches

\* every submit was followed by its pick
C29_Witness ==
  /\ searchStats.totalSearches = 2
  /\ searchStats.successfulSearches = 2
  /\ Truthy(selectedCity)

\* C30: the arrival of a geocoding or weather response, success or failure,
\* leaves the raw input text, the committed query and the selection unchanged,
\* and so does the firing of the weather timer: the three change only in the
\* steps the user takes.
C30_ResponsesLeaveInputQuerySelection ==
  [][ (lastSettled' # Null \/ WeatherCallStep) =>
        /\ city' = city
        /\ searchQuery' = searchQuery
        /\ selectedCity' = selectedCity ]_vars

\* an empty geocoding result has just arrived for the committed query while
\* the raw input already holds another text
C30_Witness ==
  /\ CityNotFound
  /\ city # searchQuery
  /\ Trim(city) # searchQuery

\* a failed weather response has just arrived and the selection still stands
C30_WitnessWeather ==
  /\ FailedAt("weatherByCity")
  /\ Truthy(selectedCity)
  /\ searchQuery = <<>>
  /\ city # <<>>

====
